---- MODULE Spec2Model ----
(***************************************************************************)
(* A model of the gateway connection layer of openclaw-multichat           *)
(* (src/src/composables/useGatewayWs.ts): one client instance, the browser *)
(* WebSocket objects it creates, the retry timer, the pending-request map  *)
(* and the rpc timeout timers; with it the device identity and the signed  *)
(* payload of the handshake (src/src/composables/useDeviceAuth.ts) and the *)
(* forwarding of server events to the onEvent callback.                    *)
(*                                                                         *)
(* The browser runs every handler to completion, so each handler is one    *)
(* action.  A WebSocket delivers its close event in a task of its own,     *)
(* after close() has returned; a failed connection delivers its error      *)
(* event and its close event back to back in one task.  The handlers a     *)
(* socket was given in connect() stay attached after the client has        *)
(* replaced or dropped the socket, and they work on the state shared by    *)
(* the whole instance.                                                     *)
(***************************************************************************)
EXTENDS Integers, Sequences, FiniteSets, TLC

\* ---- bounds ----
\* socket objects that can be alive (not yet garbage) at the same time
MaxSockets == 2
\* request ids nextId() hands out (rpc calls and handshakes together)
MaxId == 2
\* retries in a row, without a handshake success in between, that Spec follows
\* (RetrySpec follows any number of them)
MaxRetries == 2
\* event frames other than connect.challenge the server sends in a run
MaxEvents == 2
\* inbound messages that are no frame of the protocol, in a run
MaxDropped == 1
\* calls of getOrCreateDeviceIdentity() in one process
MaxCalls == 2
\* restarts of the process (page reloads)
MaxRestarts == 1

\* ---- program constants ----
\* milliseconds are kept as multiples of 1/256 ms, so that every value the
\* doubling-free sequence 1000 * 1.5^n takes below the ceiling is an integer
Ms(n) == n * 256
BackoffFloor == Ms(1000)
BackoffCeiling == Ms(30000)

Sockets == 1..MaxSockets
Ids == 1..MaxId
\* an id the client never issued (a response may still carry it)
UnknownId == 0
Payloads == {"P1", "P2"}
\* shapes of the error field of an ok=false response
ErrForms == {"string", "object", "objectNoMessage"}

\* an optional value is a sequence: <<>> when it is undefined or null, <<v>>
\* when it is v
Truthy(opt) == opt # <<>> /\ opt[1] # ""
OrEmpty(opt) == IF opt = <<>> THEN "" ELSE opt[1]

\* what sendConnectReq puts into every connect request
Role == "operator"
Scopes == <<"operator.admin", "operator.approvals", "operator.pairing">>
ClientId == "openclaw-control-ui"
ClientMode == "webchat"

\* payload?.nonce of a connect.challenge event
Nonces == {<<>>, <<"">>, <<"abc">>}
\* options.token
Tokens == {"", "tok"}
\* values of Date.now()
Times == {1000, 2000}
\* key pairs crypto.subtle.generateKey can produce, named by the private key
Keys == {"k1", "k2"}
\* the inputs of the specifications that do not vary them
Nonce0 == <<"abc">>
Token0 == "tok"
Now0 == 1000
Key0 == "k1"

\* server events
ChallengeName == "connect.challenge"
EventNames == {"chat", "agent"}
\* msg.payload of an event frame: missing, or an object
EventPayloads == {<<>>, <<"E1">>}
\* inbound data that is no res and no event frame: not JSON at all, the JSON
\* value null, an object without a type, an object of an unknown type
BadMessages ==
  {[json |-> FALSE, value |-> "text", type |-> <<>>],
   [json |-> TRUE, value |-> "null", type |-> <<>>],
   [json |-> TRUE, value |-> "object", type |-> <<>>],
   [json |-> TRUE, value |-> "object", type |-> <<"ping">>]}
EventMsg(name, payload) == [type |-> "event", event |-> name, payload |-> payload]

VARIABLES
  status,          \* connection.status
  connError,       \* connection.error
  ws,              \* the socket the client holds, 0 for null
  readyState,      \* readyState of every socket object, "NONE" = no such object
  opened,          \* sockets whose connection was established (open event fired)
  pending,         \* keys of the pending map
  kind,            \* what each issued id was issued for
  suspended,       \* handshakes suspended in sendConnectReq before pending.set
  outcome,         \* per id: state of the rpc promise / of the connect callbacks
  value,           \* per id: the value the promise resolved with
  calls,           \* per id: how many times its resolve or reject callback ran
  timeouts,        \* ids whose rpc timeout timer is armed
  sentOn,          \* per id: the socket its req frame was transmitted on, 0 = none
  reqCounter,      \* module-level reqCounter
  reconnectTimer,  \* TRUE while the retry timer is armed
  timerDelay,      \* the delay the armed retry timer was started with
  backoffMs,
  shouldReconnect,
  handshook,       \* sockets on which an ok=true connect response was processed
  stopped,         \* TRUE from a disconnect() call to the next connect() call
  freshReset,      \* TRUE from a handshake success to the next retry timer start
  notifications,   \* onConnected ("C") and onDisconnected ("D") calls, in order
  token,           \* options.token
  cachedIdentity,  \* useDeviceAuth: cachedIdentity
  stored,          \* localStorage['oc-device-identity']
  nonceOf,         \* per suspended handshake: the nonce argument of sendConnectReq
  challengedOn,    \* per suspended handshake: the socket that delivered the
                   \* challenge, 0 once that socket has closed
  connectReq,      \* per id: the connect frame transmitted on a socket still alive
  received,        \* event frames other than connect.challenge that
                   \* handleMessage was given, in order
  onEventLog,      \* calls of options.onEvent, in order
  dropped,         \* how many inbound messages onmessage has dropped
  otherPending,    \* keys of the pending map of a second client instance
  callPhase,       \* per call of getOrCreateDeviceIdentity(): where it is
  callData,        \* per call: the stored record loadDeviceIdentity has read
  callResult,      \* per call: the identity it returned
  generatedKeys,   \* the key pairs generateKey has produced so far
  earlier,         \* the identities calls of earlier processes returned
  restarts,        \* how often the process was restarted
  bpParams,        \* an argument of buildDeviceAuthPayload
  bpResult         \* what buildDeviceAuthPayload returned for it

vars == <<status, connError, ws, readyState, opened, pending, kind, suspended,
          outcome, value, calls, timeouts, sentOn, reqCounter, reconnectTimer,
          timerDelay, backoffMs, shouldReconnect, handshook, stopped,
          freshReset, notifications, token, cachedIdentity, stored, nonceOf,
          challengedOn,
          connectReq, received, onEventLog, dropped, otherPending, callPhase,
          callData, callResult, generatedKeys, earlier, restarts, bpParams, bpResult>>

sockVars == <<ws, readyState, opened>>
reqVars == <<pending, kind, suspended, outcome, value, calls, timeouts, sentOn,
             reqCounter>>
retryVars == <<reconnectTimer, timerDelay, backoffMs, shouldReconnect>>
authVars == <<token, cachedIdentity, stored, nonceOf, challengedOn, connectReq>>
eventVars == <<received, onEventLog, dropped>>
pureVars == <<bpParams, bpResult>>
callVars == <<callPhase, callData, callResult, generatedKeys, earlier, restarts>>
Calls == 1..MaxCalls

\* ---- useDeviceAuth.ts ----
\* base64url of the raw public key of a key pair, and the hex SHA-256 of it
PublicOf(k) == "pub-" \o k
DeviceIdOf(pub) == "sha256-" \o pub
NoIdentity == [deviceId |-> "", publicKey |-> "", privateKey |-> ""]
NoRecord == [deviceId |-> "", publicKey |-> "", privateKeyPkcs8 |-> ""]

\* generateDeviceIdentity() when generateKey produces the pair k: the identity
\* it returns and the record it stores
generateDeviceIdentity(k) ==
  [deviceId |-> DeviceIdOf(PublicOf(k)), publicKey |-> PublicOf(k), privateKey |-> k]
StoredOf(identity) ==
  [deviceId |-> identity.deviceId, publicKey |-> identity.publicKey,
   privateKeyPkcs8 |-> identity.privateKey]

\* a key pair an earlier process generated
PriorKey == "k0"
\* pkcs8 texts that importKey accepts
ValidKeys == Keys \cup {PriorKey}
\* a stored text that JSON.parse or base64UrlDecode throws on
Undecodable == [deviceId |-> "?", publicKey |-> "?", privateKeyPkcs8 |-> "?"]
\* a stored record whose privateKeyPkcs8 decodes but is no key
BadKey ==
  [deviceId |-> DeviceIdOf(PublicOf(PriorKey)), publicKey |-> PublicOf(PriorKey),
   privateKeyPkcs8 |-> "badkey"]
\* stored records with a good private key whose other fields are not derived
\* from it (edited, or written by another program)
ForeignRecords ==
  {[deviceId |-> "d-x", publicKey |-> PublicOf(PriorKey), privateKeyPkcs8 |-> PriorKey],
   [deviceId |-> DeviceIdOf("pub-x"), publicKey |-> "pub-x", privateKeyPkcs8 |-> PriorKey]}
\* what localStorage may hold under the key when a process starts
StoredRecords ==
  {NoRecord, StoredOf(generateDeviceIdentity(PriorKey)), Undecodable, BadKey}
    \cup ForeignRecords
\* JSON.parse and base64UrlDecode succeed; importKey resolves
Decodes(record) == record.privateKeyPkcs8 # "?"
Imports(record) == record.privateKeyPkcs8 \in ValidKeys

\* the identity loadDeviceIdentity builds from a record whose key imports
Imported(record) ==
  [deviceId |-> record.deviceId, publicKey |-> record.publicKey,
   privateKey |-> record.privateKeyPkcs8]

\* every identity and every record the model can hold
Identities ==
  {NoIdentity} \cup {generateDeviceIdentity(k) : k \in ValidKeys}
    \cup {Imported(r) : r \in ForeignRecords}
Records == StoredRecords \cup {StoredOf(generateDeviceIdentity(k)) : k \in Keys}

\* loadDeviceIdentity(): the cache, else the stored record with its private
\* key imported, else null
loadDeviceIdentity ==
  IF cachedIdentity # NoIdentity THEN cachedIdentity
  ELSE IF stored = NoRecord THEN NoIdentity
  ELSE IF ~Imports(stored) THEN NoIdentity
  ELSE [deviceId |-> stored.deviceId, publicKey |-> stored.publicKey,
        privateKey |-> stored.privateKeyPkcs8]

getOrCreateDeviceIdentity(k) ==
  IF loadDeviceIdentity # NoIdentity THEN loadDeviceIdentity
  ELSE generateDeviceIdentity(k)

\* Array.prototype.join
RECURSIVE Join(_, _)
Join(seq, sep) ==
  IF seq = <<>> THEN ""
  ELSE IF Len(seq) = 1 THEN seq[1]
  ELSE seq[1] \o sep \o Join(Tail(seq), sep)

buildDeviceAuthPayloadAlwaysV1(params) ==
  Join(<<"v1", params.deviceId, params.clientId, params.clientMode, params.role,
         Join(params.scopes, ","), ToString(params.signedAtMs),
         OrEmpty(params.token)>>, "|")
buildDeviceAuthPayload(params) ==
  LET version == IF Truthy(params.nonce) THEN "v2" ELSE "v1"
      scopes == Join(params.scopes, ",")
      tok == OrEmpty(params.token)
      base == <<version, params.deviceId, params.clientId, params.clientMode,
                params.role, scopes, ToString(params.signedAtMs), tok>>
  IN Join(IF version = "v2" THEN Append(base, OrEmpty(params.nonce)) ELSE base,
          "|")

\* signPayload: the Ed25519 signature of a text under a private key
signPayloadOtherKey(privateKey, payload) == [key |-> "k0", text |-> payload]
signPayload(privateKey, payload) == [key |-> privateKey, text |-> payload]

\* the req frame sendConnectReq hands to sendRaw
NoReq == [method |-> "none"]
ConnectParams(identity, signedAtMs, nonce) ==
  [deviceId |-> identity.deviceId, clientId |-> ClientId, clientMode |-> ClientMode,
   role |-> Role, scopes |-> Scopes, signedAtMs |-> signedAtMs,
   token |-> <<token>>, nonce |-> nonce]
ConnectFrame(id, identity, signedAtMs, nonce) ==
  [type |-> "req", id |-> id, method |-> "connect",
   client |-> [id |-> ClientId, mode |-> ClientMode],
   role |-> Role, scopes |-> Scopes,
   device |-> [id |-> identity.deviceId, publicKey |-> identity.publicKey,
               signature |-> signPayload(identity.privateKey,
                  buildDeviceAuthPayload(ConnectParams(identity, signedAtMs, nonce))),
               signedAt |-> signedAtMs, nonce |-> nonce],
   auth |-> [token |-> token]]

\* arguments buildDeviceAuthPayload is tried with on its own
ParamSets ==
  [deviceId : {"d1", "d2"}, clientId : {ClientId}, clientMode : {ClientMode},
   role : {Role}, scopes : {<<>>, <<"operator.admin">>, Scopes},
   signedAtMs : {0} \cup Times, token : {<<>>} \cup {<<x>> : x \in Tokens},
   nonce : Nonces]
NoResult == "none"

Min(a, b) == IF a < b THEN a ELSE b

TypeOK ==
  /\ status \in {"disconnected", "connecting", "connected", "error"}
  /\ connError \in {"none", "closed", "failed", "disconnected", "server", "RPC error"}
  /\ ws \in 0..MaxSockets
  /\ readyState \in [Sockets -> {"NONE", "CONNECTING", "OPEN", "CLOSING", "CLOSED"}]
  /\ opened \subseteq Sockets
  /\ pending \subseteq Ids
  /\ kind \in [Ids -> {"none", "rpc", "connect", "abort", "other"}]
  /\ suspended \subseteq Ids
  /\ outcome \in [Ids -> {"none", "pending", "resolved", "disconnected",
                          "timeout", "server", "RPC error"}]
  /\ value \in [Ids -> Payloads \cup {"none"}]
  /\ calls \in [Ids -> Nat]
  /\ timeouts \subseteq Ids
  /\ sentOn \in [Ids -> 0..MaxSockets]
  /\ reqCounter \in 0..MaxId
  /\ reconnectTimer \in BOOLEAN
  /\ timerDelay \in Nat
  /\ backoffMs \in Nat
  /\ shouldReconnect \in BOOLEAN
  /\ handshook \subseteq Sockets
  /\ stopped \in BOOLEAN
  /\ freshReset \in BOOLEAN
  /\ notifications \in Seq({"C", "D"})
  /\ token \in Tokens
  /\ cachedIdentity \in Identities
  /\ stored \in Records
  /\ nonceOf \in [Ids -> Nonces]
  /\ challengedOn \in [Ids -> 0..MaxSockets]
  /\ \A i \in Ids : connectReq[i] = NoReq \/ connectReq[i].method = "connect"
  /\ \A n \in DOMAIN received : received[n].type = "event"
  /\ Len(onEventLog) <= Len(received)
  /\ dropped \in 0..MaxDropped
  /\ otherPending \subseteq Ids
  /\ callPhase \in [Calls -> {"idle", "importing", "generating", "generated", "done"}]
  /\ callData \in [Calls -> Records]
  /\ callResult \in [Calls -> Identities]
  /\ generatedKeys \subseteq Keys
  /\ earlier \subseteq Identities
  /\ restarts \in 0..MaxRestarts
  /\ bpParams \in ParamSets
  /\ bpResult = NoResult \/ Len(bpResult) > 0

\* useGatewayWs(): the state right after construction, in a fresh process
InitClient ==
  /\ status = "disconnected"
  /\ connError = "none"
  /\ ws = 0
  /\ readyState = [s \in Sockets |-> "NONE"]
  /\ opened = {}
  /\ pending = {}
  /\ kind = [i \in Ids |-> "none"]
  /\ suspended = {}
  /\ outcome = [i \in Ids |-> "none"]
  /\ value = [i \in Ids |-> "none"]
  /\ calls = [i \in Ids |-> 0]
  /\ timeouts = {}
  /\ sentOn = [i \in Ids |-> 0]
  /\ reqCounter = 0
  /\ reconnectTimer = FALSE
  /\ timerDelay = 0
  /\ backoffMs = BackoffFloor
  /\ shouldReconnect = FALSE
  /\ handshook = {}
  /\ stopped = FALSE
  /\ freshReset = FALSE
  /\ notifications = <<>>
  /\ cachedIdentity = NoIdentity
  /\ nonceOf = [i \in Ids |-> <<>>]
  /\ challengedOn = [i \in Ids |-> 0]
  /\ connectReq = [i \in Ids |-> NoReq]
  /\ received = <<>>
  /\ onEventLog = <<>>
  /\ dropped = 0
  /\ otherPending = {}
  /\ callPhase = [c \in Calls |-> "idle"]
  /\ callData = [c \in Calls |-> NoRecord]
  /\ callResult = [c \in Calls |-> NoIdentity]
  /\ generatedKeys = {}
  /\ earlier = {}
  /\ restarts = 0
  /\ bpResult = NoResult

DefaultParams ==
  [deviceId |-> "d1", clientId |-> ClientId, clientMode |-> ClientMode,
   role |-> Role, scopes |-> Scopes, signedAtMs |-> Now0, token |-> <<Token0>>,
   nonce |-> Nonce0]

\* one token, no identity in the storage yet
Init ==
  /\ InitClient
  /\ token = Token0
  /\ stored = NoRecord
  /\ bpParams = DefaultParams

\* any token; the storage is empty or holds the record an earlier process made
InitAuth ==
  /\ InitClient
  /\ token \in Tokens
  /\ stored \in {NoRecord} \cup {StoredOf(generateDeviceIdentity(k)) : k \in Keys}
  /\ bpParams = DefaultParams

\* the storage holds whatever an earlier process, the user or another program
\* left under the key
InitIdentity ==
  /\ InitClient
  /\ token = Token0
  /\ stored \in StoredRecords
  /\ bpParams = DefaultParams

\* any argument for buildDeviceAuthPayload
InitPayload ==
  /\ InitClient
  /\ token = Token0
  /\ stored = NoRecord
  /\ bpParams \in ParamSets

\* ---- helpers ----
\* socket slots holding no object
Free == {s \in Sockets : readyState[s] = "NONE"}
\* slots a new socket object can take: the free ones, and the one of a closed
\* socket that connect() is about to drop
Avail == Free \cup (IF ws # 0 /\ readyState[ws] = "CLOSED" THEN {ws} ELSE {})
NewSlot ==
  IF Free # {} THEN CHOOSE s \in Free : \A t \in Free : s <= t ELSE ws

\* WebSocket.close() called by the client: the close event comes later
AfterCloseCallLeavesOpen(rs) == IF rs = "CLOSED" THEN "NONE" ELSE rs
AfterCloseCall(rs) ==
  CASE rs = "CONNECTING" -> "CLOSING"
    [] rs = "OPEN" -> "CLOSING"
    [] rs = "CLOSING" -> "CLOSING"
    [] rs = "CLOSED" -> "NONE"
    [] OTHER -> rs

\* sockets that can still deliver message events
Receiving(s) == s \in opened /\ readyState[s] \in {"OPEN", "CLOSING"}

HasConnect(P) == \E i \in P : kind[i] = "connect"

\* sendRaw: the socket a frame goes out on, 0 when nothing is transmitted
sendRawOnAnySocket == ws
sendRaw == IF ws # 0 /\ readyState[ws] = "OPEN" THEN ws ELSE 0

\* Math.min(backoffMs * 1.5, 30000)
NextBackoff(b) == Min((b * 3) \div 2, BackoffCeiling)

\* the message the reject callback of handleMessage gets
ErrMsgOfObjectOnly(form) == IF form = "object" THEN "server" ELSE "RPC error"
ErrMsgGeneric(form) == "RPC error"
ErrMsg(form) == IF form = "objectNoMessage" THEN "RPC error" ELSE "server"

\* flushPending(new Error('disconnected')): every entry's reject callback runs,
\* then the map is cleared.  st and er are status and error text before it
\* (the reject callback of a connect request overwrites both).
flushStatus(st) == IF HasConnect(pending) THEN "error" ELSE st
flushError(er) == IF HasConnect(pending) THEN "disconnected" ELSE er
flushPendingKeepsRpc ==
  /\ outcome' = [i \in Ids |-> IF i \in pending /\ kind[i] = "connect"
                                 THEN "disconnected" ELSE outcome[i]]
  /\ calls' = [i \in Ids |-> IF i \in pending /\ kind[i] = "connect"
                               THEN calls[i] + 1 ELSE calls[i]]
  /\ timeouts' = timeouts
  /\ pending' = {i \in pending : kind[i] = "rpc"}
flushPendingKeepsTimers ==
  /\ outcome' = [i \in Ids |-> IF i \in pending THEN "disconnected" ELSE outcome[i]]
  /\ calls' = [i \in Ids |-> IF i \in pending THEN calls[i] + 1 ELSE calls[i]]
  /\ timeouts' = timeouts
  /\ pending' = {}
flushPending ==
  /\ outcome' = [i \in Ids |-> IF i \in pending THEN "disconnected" ELSE outcome[i]]
  /\ calls' = [i \in Ids |-> IF i \in pending THEN calls[i] + 1 ELSE calls[i]]
  /\ timeouts' = timeouts \ pending
  /\ pending' = {}

\* scheduleReconnect()
scheduleReconnectUnguarded ==
  /\ reconnectTimer' = TRUE
  /\ timerDelay' = backoffMs
  /\ freshReset' = FALSE
scheduleReconnectOnce ==
  IF shouldReconnect /\ backoffMs = BackoffFloor
    THEN /\ reconnectTimer' = TRUE
         /\ timerDelay' = backoffMs
         /\ freshReset' = FALSE
    ELSE UNCHANGED <<reconnectTimer, timerDelay, freshReset>>
scheduleReconnect ==
  IF shouldReconnect
    THEN /\ reconnectTimer' = TRUE
         /\ timerDelay' = backoffMs
         /\ freshReset' = FALSE
    ELSE UNCHANGED <<reconnectTimer, timerDelay, freshReset>>

\* ---- client operations ----
\* the body of connect(), shared by the explicit call and the retry timer
connectKeepsError ==
  LET new == NewSlot
      rs1 == IF ws = 0 THEN readyState
             ELSE [readyState EXCEPT ![ws] = AfterCloseCall(readyState[ws])]
  IN /\ readyState' = [rs1 EXCEPT ![new] = "CONNECTING"]
     /\ ws' = new
     /\ opened' = opened \ {new}
     /\ handshook' = handshook \ {new}
     /\ shouldReconnect' = TRUE
     /\ status' = "connecting"
     /\ connError' = connError
connect ==
  LET new == NewSlot
      rs1 == IF ws = 0 THEN readyState
             ELSE [readyState EXCEPT ![ws] = AfterCloseCall(readyState[ws])]
  IN /\ readyState' = [rs1 EXCEPT ![new] = "CONNECTING"]
     /\ ws' = new
     /\ opened' = opened \ {new}
     /\ handshook' = handshook \ {new}
     /\ shouldReconnect' = TRUE
     /\ status' = "connecting"
     /\ connError' = "none"

\* connect() called by the application (as long as a slot stays available for
\* the socket of an armed retry timer)
Connect ==
  /\ Cardinality(Avail) >= (IF reconnectTimer THEN 2 ELSE 1)
  /\ connect
  /\ stopped' = FALSE
  /\ UNCHANGED <<reqVars, reconnectTimer, timerDelay, backoffMs, freshReset,
                 notifications>>
  /\ UNCHANGED <<authVars, eventVars, pureVars, otherPending, callVars>>

\* the retry timer fires
TimerFire ==
  /\ reconnectTimer
  /\ connect
  /\ backoffMs' = NextBackoff(backoffMs)
  /\ reconnectTimer' = FALSE
  /\ timerDelay' = 0
  /\ UNCHANGED <<reqVars, stopped, freshReset, notifications>>
  /\ UNCHANGED <<authVars, eventVars, pureVars, otherPending, callVars>>

\* disconnect() called by the application
Disconnect ==
  /\ shouldReconnect' = FALSE
  /\ reconnectTimer' = FALSE
  /\ timerDelay' = 0
  /\ readyState' = IF ws = 0 THEN readyState
                   ELSE [readyState EXCEPT ![ws] = AfterCloseCall(readyState[ws])]
  /\ ws' = 0
  /\ status' = flushStatus("disconnected")
  /\ connError' = flushError(connError)
  /\ flushPending
  /\ stopped' = TRUE
  /\ UNCHANGED <<opened, kind, suspended, value, sentOn, reqCounter, backoffMs,
                 handshook, freshReset, notifications>>
  /\ UNCHANGED <<authVars, eventVars, pureVars, otherPending, callVars>>

\* nextId(): the counter after its increment; the text around it in the id
\* string does not tell two ids apart
nextIdNoIncrement == IF reqCounter = 0 THEN 1 ELSE reqCounter
nextId == reqCounter + 1

\* rpc(method, params)
Rpc ==
  /\ reqCounter < MaxId
  /\ LET id == nextId
     IN /\ reqCounter' = id
        /\ kind' = [kind EXCEPT ![id] = "rpc"]
        /\ timeouts' = timeouts \cup {id}
        /\ pending' = pending \cup {id}
        /\ outcome' = [outcome EXCEPT ![id] = "pending"]
        /\ sentOn' = [sentOn EXCEPT ![id] = sendRaw]
  /\ UNCHANGED <<status, connError, sockVars, suspended, value, calls, retryVars,
                 handshook, stopped, freshReset, notifications>>
  /\ UNCHANGED <<authVars, eventVars, pureVars, otherPending, callVars>>

\* rpc() of a second client instance of the same page: the same module-level
\* counter, its own pending map (of that instance only the map is modelled)
OtherRpc ==
  /\ reqCounter < MaxId
  /\ LET id == nextId
     IN /\ reqCounter' = id
        /\ kind' = [kind EXCEPT ![id] = "other"]
        /\ otherPending' = otherPending \cup {id}
  /\ UNCHANGED <<status, connError, sockVars, pending, suspended, outcome, value,
                 calls, timeouts, sentOn, retryVars, handshook, stopped,
                 freshReset, notifications>>
  /\ UNCHANGED <<authVars, eventVars, pureVars, callVars>>

\* the second instance settles one of its requests (response, timeout or flush)
OtherSettle(id) ==
  /\ id \in otherPending
  /\ otherPending' = otherPending \ {id}
  /\ UNCHANGED <<status, connError, sockVars, reqVars, retryVars, handshook,
                 stopped, freshReset, notifications>>
  /\ UNCHANGED <<authVars, eventVars, pureVars, callVars>>

\* chatAbort(sessionKey): nextId() and sendRaw, no entry in the pending map
ChatAbort ==
  /\ reqCounter < MaxId
  /\ LET id == nextId
     IN /\ reqCounter' = id
        /\ kind' = [kind EXCEPT ![id] = "abort"]
        /\ sentOn' = [sentOn EXCEPT ![id] = sendRaw]
  /\ UNCHANGED <<status, connError, sockVars, pending, suspended, outcome, value,
                 calls, timeouts, retryVars, handshook, stopped, freshReset,
                 notifications>>
  /\ UNCHANGED <<authVars, eventVars, pureVars, otherPending, callVars>>

\* the 30000 ms timer of an rpc() call fires
RpcTimeoutKeepsEntry(id) ==
  /\ id \in timeouts
  /\ timeouts' = timeouts \ {id}
  /\ pending' = pending
  /\ outcome' = [outcome EXCEPT ![id] = IF @ = "pending" THEN "timeout" ELSE @]
  /\ calls' = [calls EXCEPT ![id] = @ + 1]
  /\ UNCHANGED <<status, connError, sockVars, kind, suspended, value, sentOn,
                 reqCounter, retryVars, handshook, stopped, freshReset,
                 notifications>>
  /\ UNCHANGED <<authVars, eventVars, pureVars, otherPending, callVars>>
RpcTimeout(id) ==
  /\ id \in timeouts
  /\ timeouts' = timeouts \ {id}
  /\ pending' = pending \ {id}
  /\ outcome' = [outcome EXCEPT ![id] = IF @ = "pending" THEN "timeout" ELSE @]
  /\ calls' = [calls EXCEPT ![id] = @ + 1]
  /\ UNCHANGED <<status, connError, sockVars, kind, suspended, value, sentOn,
                 reqCounter, retryVars, handshook, stopped, freshReset,
                 notifications>>
  /\ UNCHANGED <<authVars, eventVars, pureVars, otherPending, callVars>>

\* ---- socket events ----
\* the open event: the handler only logs
SocketOpen(s) ==
  /\ readyState[s] = "CONNECTING"
  /\ readyState' = [readyState EXCEPT ![s] = "OPEN"]
  /\ opened' = opened \cup {s}
  /\ UNCHANGED <<status, connError, ws, reqVars, retryVars, handshook, stopped,
                 freshReset, notifications>>
  /\ UNCHANGED <<authVars, eventVars, pureVars, otherPending, callVars>>

\* ws.onclose of socket s, run with status st in force
oncloseAlwaysNotifies(s, st) ==
  /\ status' = flushStatus(IF st = "connected" THEN "disconnected" ELSE "error")
  /\ notifications' = Append(notifications, "D")
  /\ connError' = flushError("closed")
  /\ flushPending
  /\ scheduleReconnect
  /\ readyState' = [readyState EXCEPT ![s] = IF s = ws THEN "CLOSED" ELSE "NONE"]
  /\ opened' = opened \ {s}
  /\ handshook' = handshook \ {s}
  /\ sentOn' = [i \in Ids |-> IF sentOn[i] = s THEN 0 ELSE sentOn[i]]
  /\ connectReq' = [i \in Ids |-> IF sentOn[i] = s THEN NoReq ELSE connectReq[i]]
  /\ challengedOn' = [i \in Ids |-> IF challengedOn[i] = s THEN 0 ELSE challengedOn[i]]
  /\ UNCHANGED <<ws, kind, suspended, value, reqCounter, backoffMs,
                 shouldReconnect, stopped>>
  /\ UNCHANGED <<token, cachedIdentity, stored, nonceOf, eventVars, pureVars, otherPending, callVars>>
onclose(s, st) ==
  /\ status' = flushStatus(IF st = "connected" THEN "disconnected" ELSE "error")
  /\ notifications' = IF st = "connected" THEN Append(notifications, "D")
                      ELSE notifications
  /\ connError' = flushError("closed")
  /\ flushPending
  /\ scheduleReconnect
  /\ readyState' = [readyState EXCEPT ![s] = IF s = ws THEN "CLOSED" ELSE "NONE"]
  /\ opened' = opened \ {s}
  /\ handshook' = handshook \ {s}
  /\ sentOn' = [i \in Ids |-> IF sentOn[i] = s THEN 0 ELSE sentOn[i]]
  /\ connectReq' = [i \in Ids |-> IF sentOn[i] = s THEN NoReq ELSE connectReq[i]]
  /\ challengedOn' = [i \in Ids |-> IF challengedOn[i] = s THEN 0 ELSE challengedOn[i]]
  /\ UNCHANGED <<ws, kind, suspended, value, reqCounter, backoffMs,
                 shouldReconnect, stopped>>
  /\ UNCHANGED <<token, cachedIdentity, stored, nonceOf, eventVars, pureVars, otherPending, callVars>>

\* an established connection closes: the close event alone
SocketClose(s) ==
  /\ s \in opened
  /\ readyState[s] \in {"OPEN", "CLOSING"}
  /\ onclose(s, status)

\* ws.onerror: the status it leaves; the error text it sets is overwritten by
\* the close handler that runs next in the same task
onerrorStatus == "error"

\* the connection fails (never established, or lost abnormally): the error
\* event, then the close event
SocketFail(s) ==
  /\ readyState[s] \in {"CONNECTING", "OPEN", "CLOSING"}
  /\ onclose(s, onerrorStatus)

\* a connect.challenge event with payload?.nonce = nonce arrives on s:
\* handleMessage starts sendConnectReq(nonce), which takes its id and suspends
\* awaiting the identity and the signature; the event is not forwarded
Challenge(s, nonce) ==
  /\ Receiving(s)
  /\ reqCounter < MaxId
  /\ LET id == nextId
     IN /\ reqCounter' = id
        /\ kind' = [kind EXCEPT ![id] = "connect"]
        /\ suspended' = suspended \cup {id}
        /\ nonceOf' = [nonceOf EXCEPT ![id] = nonce]
        /\ challengedOn' = [challengedOn EXCEPT ![id] = s]
  /\ UNCHANGED <<status, connError, sockVars, pending, outcome, value, calls,
                 timeouts, sentOn, retryVars, handshook, stopped, freshReset,
                 notifications>>
  /\ UNCHANGED <<token, cachedIdentity, stored, connectReq, eventVars, pureVars, otherPending, callVars>>

\* sendConnectReq resumes after its awaits, with the identity it was given
\* (k is the key pair generateKey makes if one is generated), Date.now() = now
\* and the signature: pending.set and sendRaw
ContinueConnectReq(id, now, k) ==
  /\ id \in suspended
  /\ suspended' = suspended \ {id}
  /\ cachedIdentity' = getOrCreateDeviceIdentity(k)
  /\ stored' = IF loadDeviceIdentity = NoIdentity
                 THEN StoredOf(generateDeviceIdentity(k)) ELSE stored
  /\ pending' = pending \cup {id}
  /\ outcome' = [outcome EXCEPT ![id] = "pending"]
  /\ sentOn' = [sentOn EXCEPT ![id] = sendRaw]
  /\ connectReq' = [connectReq EXCEPT ![id] =
        IF sendRaw # 0
          THEN ConnectFrame(id, getOrCreateDeviceIdentity(k), now, nonceOf[id])
          ELSE NoReq]
  /\ nonceOf' = [nonceOf EXCEPT ![id] = <<>>]
  /\ challengedOn' = [challengedOn EXCEPT ![id] = 0]
  /\ UNCHANGED <<status, connError, sockVars, kind, value, calls, timeouts,
                 reqCounter, retryVars, handshook, stopped, freshReset,
                 notifications>>
  /\ UNCHANGED <<token, eventVars, pureVars, otherPending, callVars>>

\* msg.payload || msg: what onEvent is given as the payload (an object is
\* written [obj |-> p])
PayloadOrMsgAlwaysMsg(msg) == msg
PayloadOrMsg(msg) == IF msg.payload # <<>> THEN [obj |-> msg.payload[1]] ELSE msg

\* an event frame other than connect.challenge arrives on s
EventFrame(s, name, payload) ==
  /\ Receiving(s)
  /\ Len(received) < MaxEvents
  /\ received' = Append(received, EventMsg(name, payload))
  /\ onEventLog' = Append(onEventLog,
                          [event |-> name, payload |-> PayloadOrMsg(EventMsg(name, payload))])
  /\ UNCHANGED <<status, connError, sockVars, reqVars, retryVars, handshook,
                 stopped, freshReset, notifications, authVars, pureVars, otherPending, callVars, dropped>>

\* whether a branch of handleMessage takes the message: it parsed, reading
\* its type did not throw, and the type is 'res' or 'event'
Handled(raw) ==
  raw.json /\ raw.value = "object" /\ raw.type \in {<<"res">>, <<"event">>}

\* onmessage is given data that is no frame of the protocol: JSON.parse
\* throws into the empty catch, or reading msg.type of null does, or
\* handleMessage finds the type to be neither 'res' nor 'event'
BadMessageForwarded(s, raw) ==
  /\ Receiving(s)
  /\ ~Handled(raw)
  /\ dropped < MaxDropped
  /\ dropped' = dropped + 1
  /\ onEventLog' = IF raw.json /\ raw.value = "object"
                     THEN Append(onEventLog, [event |-> "", payload |-> [obj |-> ""]])
                     ELSE onEventLog
  /\ UNCHANGED <<status, connError, sockVars, reqVars, retryVars, handshook,
                 stopped, freshReset, notifications, authVars, pureVars, otherPending, callVars,
                 received>>
BadMessage(s, raw) ==
  /\ Receiving(s)
  /\ ~Handled(raw)
  /\ dropped < MaxDropped
  /\ dropped' = dropped + 1
  /\ UNCHANGED <<status, connError, sockVars, reqVars, retryVars, handshook,
                 stopped, freshReset, notifications, authVars, pureVars, otherPending, callVars,
                 received, onEventLog>>

\* ---- getOrCreateDeviceIdentity() step by step ----
\* a call starts and runs up to its first real wait: it returns the cached
\* identity, or has read the stored record and awaits importKey, or found
\* nothing (or a text it cannot decode, which it removes) and awaits
\* generateKey.  callData keeps the record the call has read.
IdentityCall(c) ==
  /\ callPhase[c] = "idle"
  /\ IF cachedIdentity # NoIdentity
       THEN /\ callPhase' = [callPhase EXCEPT ![c] = "done"]
            /\ callResult' = [callResult EXCEPT ![c] = cachedIdentity]
            /\ UNCHANGED <<callData, stored>>
       ELSE IF stored = NoRecord
         THEN /\ callPhase' = [callPhase EXCEPT ![c] = "generating"]
              /\ UNCHANGED <<callData, callResult, stored>>
         ELSE IF Decodes(stored)
           THEN /\ callPhase' = [callPhase EXCEPT ![c] = "importing"]
                /\ callData' = [callData EXCEPT ![c] = stored]
                /\ UNCHANGED <<callResult, stored>>
           ELSE /\ callPhase' = [callPhase EXCEPT ![c] = "generating"]
                /\ callData' = [callData EXCEPT ![c] = stored]
                /\ stored' = NoRecord
                /\ UNCHANGED callResult
  /\ UNCHANGED <<status, connError, sockVars, reqVars, retryVars, handshook,
                 stopped, freshReset, notifications, token, cachedIdentity,
                 nonceOf, challengedOn, connectReq, eventVars,
                 pureVars, otherPending, generatedKeys, earlier, restarts>>

\* importKey has resolved: loadDeviceIdentity caches the identity and the call
\* returns it
ImportDone(c) ==
  /\ callPhase[c] = "importing"
  /\ Imports(callData[c])
  /\ callPhase' = [callPhase EXCEPT ![c] = "done"]
  /\ cachedIdentity' = Imported(callData[c])
  /\ callResult' = [callResult EXCEPT ![c] = Imported(callData[c])]
  /\ UNCHANGED <<status, connError, sockVars, reqVars, retryVars, handshook,
                 stopped, freshReset, notifications, token, stored, nonceOf, challengedOn,
                 connectReq, eventVars, pureVars, otherPending, callData,
                 generatedKeys, earlier, restarts>>

\* importKey has rejected: loadDeviceIdentity removes whatever is stored under
\* the key now and returns null; the call goes on to generate
ImportFail(c) ==
  /\ callPhase[c] = "importing"
  /\ ~Imports(callData[c])
  /\ callPhase' = [callPhase EXCEPT ![c] = "generating"]
  /\ stored' = NoRecord
  /\ UNCHANGED <<status, connError, sockVars, reqVars, retryVars, handshook,
                 stopped, freshReset, notifications, token, cachedIdentity,
                 nonceOf, challengedOn, connectReq, eventVars, pureVars, otherPending,
                 callData, callResult, generatedKeys, earlier, restarts>>

\* generateKey and the exports have resolved with the new key pair k:
\* generateDeviceIdentity stores the record and returns the identity
GenerateDone(c, k) ==
  /\ callPhase[c] = "generating"
  /\ k \notin generatedKeys
  /\ generatedKeys' = generatedKeys \cup {k}
  /\ callPhase' = [callPhase EXCEPT ![c] = "generated"]
  /\ stored' = StoredOf(generateDeviceIdentity(k))
  /\ callResult' = [callResult EXCEPT ![c] = generateDeviceIdentity(k)]
  /\ UNCHANGED <<status, connError, sockVars, reqVars, retryVars, handshook,
                 stopped, freshReset, notifications, token, cachedIdentity,
                 nonceOf, challengedOn, connectReq, eventVars, pureVars, otherPending, callData, earlier,
                 restarts>>

\* getOrCreateDeviceIdentity resumes after generateDeviceIdentity: it caches
\* the identity and returns it
CacheGenerated(c) ==
  /\ callPhase[c] = "generated"
  /\ callPhase' = [callPhase EXCEPT ![c] = "done"]
  /\ cachedIdentity' = callResult[c]
  /\ UNCHANGED <<status, connError, sockVars, reqVars, retryVars, handshook,
                 stopped, freshReset, notifications, token, stored, nonceOf, challengedOn,
                 connectReq, eventVars, pureVars, otherPending, callData, callResult,
                 generatedKeys, earlier, restarts>>

\* the page is reloaded: module state is gone, localStorage stays
Restart ==
  /\ restarts < MaxRestarts
  /\ restarts' = restarts + 1
  /\ cachedIdentity' = NoIdentity
  /\ earlier' = earlier \cup {callResult[c] : c \in {d \in Calls : callPhase[d] = "done"}}
  /\ callPhase' = [c \in Calls |-> "idle"]
  /\ callData' = [c \in Calls |-> NoRecord]
  /\ callResult' = [c \in Calls |-> NoIdentity]
  /\ UNCHANGED <<status, connError, sockVars, reqVars, retryVars, handshook,
                 stopped, freshReset, notifications, token, stored, nonceOf, challengedOn,
                 connectReq, eventVars, pureVars, otherPending, generatedKeys>>

\* buildDeviceAuthPayload called on its own
BuildPayload ==
  /\ bpResult = NoResult
  /\ bpResult' = buildDeviceAuthPayload(bpParams)
  /\ UNCHANGED <<status, connError, sockVars, reqVars, retryVars, handshook,
                 stopped, freshReset, notifications, authVars, eventVars,
                 bpParams, callVars, otherPending>>
NextParams ==
  /\ bpResult # NoResult
  /\ bpParams' \in ParamSets
  /\ bpResult' = NoResult
  /\ UNCHANGED <<status, connError, sockVars, reqVars, retryVars, handshook,
                 stopped, freshReset, notifications, authVars, eventVars,
                 callVars, otherPending>>

\* pending.get(id): the entry a response is matched with
NoEntry == -1
pendingGetOldest(id) ==
  IF pending # {} /\ id # UnknownId
    THEN CHOOSE i \in pending : \A j \in pending : i <= j
    ELSE NoEntry
pendingGetAny(id) ==
  IF id \in pending THEN id
  ELSE IF pending # {} THEN CHOOSE i \in pending : TRUE
  ELSE NoEntry
pendingGet(id) == IF id \in pending THEN id ELSE NoEntry

\* a res frame arrives on s.  The server answers ids it was sent on s (it may
\* answer twice), or an id the client never issued.
Response(s, id, ok, body) ==
  /\ Receiving(s)
  /\ id \in {UnknownId} \cup {i \in Ids : sentOn[i] = s}
  /\ LET p == pendingGet(id)
     IN IF p # NoEntry
       THEN /\ pending' = pending \ {id}
            /\ calls' = [calls EXCEPT ![p] = @ + 1]
            /\ timeouts' = timeouts \ {p}
            /\ outcome' = [outcome EXCEPT ![p] = IF ok THEN "resolved" ELSE ErrMsg(body)]
            /\ value' = [value EXCEPT ![p] = IF ok THEN body ELSE @]
            /\ IF kind[p] = "connect"
                 THEN IF ok
                        THEN /\ status' = "connected"
                             /\ backoffMs' = BackoffFloor
                             /\ notifications' = Append(notifications, "C")
                             /\ handshook' = handshook \cup {s}
                             /\ freshReset' = TRUE
                             /\ UNCHANGED connError
                        ELSE /\ status' = "error"
                             /\ connError' = ErrMsg(body)
                             /\ UNCHANGED <<backoffMs, notifications, handshook,
                                            freshReset>>
                 ELSE UNCHANGED <<status, connError, backoffMs, notifications,
                                  handshook, freshReset>>
       ELSE UNCHANGED <<pending, calls, timeouts, outcome, value, status,
                        connError, backoffMs, notifications, handshook,
                        freshReset>>
  /\ UNCHANGED <<sockVars, kind, suspended, sentOn, reqCounter, reconnectTimer,
                 timerDelay, shouldReconnect, stopped>>
  /\ UNCHANGED <<authVars, eventVars, pureVars, otherPending, callVars>>

\* the backoff interval after n retries in a row
RECURSIVE BackoffAfter(_)
BackoffAfter(n) == IF n = 0 THEN BackoffFloor ELSE NextBackoff(BackoffAfter(n - 1))

Responses ==
  \E s \in Sockets, id \in Ids \cup {UnknownId}, ok \in BOOLEAN :
    \E body \in (IF ok THEN Payloads ELSE ErrForms) : Response(s, id, ok, body)

Next ==
  \/ Connect
  \/ backoffMs < BackoffAfter(MaxRetries) /\ TimerFire
  \/ Disconnect
  \/ Rpc
  \/ ChatAbort
  \/ OtherRpc
  \/ \E id \in Ids : OtherSettle(id)
  \/ \E id \in Ids : RpcTimeout(id)
  \/ \E s \in Sockets : SocketOpen(s)
  \/ \E s \in Sockets : SocketClose(s)
  \/ \E s \in Sockets : SocketFail(s)
  \/ \E s \in Sockets : Challenge(s, Nonce0)
  \/ \E id \in Ids : ContinueConnectReq(id, Now0, Key0)
  \/ Responses

Spec == Init /\ [][Next]_vars

\* the supervisor alone, with no rpc() calls and any number of retries
NextRetry ==
  \/ Connect
  \/ TimerFire
  \/ Disconnect
  \/ \E s \in Sockets : SocketOpen(s)
  \/ \E s \in Sockets : SocketClose(s)
  \/ \E s \in Sockets : SocketFail(s)
  \/ \E s \in Sockets : Challenge(s, Nonce0)
  \/ \E id \in Ids : ContinueConnectReq(id, Now0, Key0)
  \/ Responses

\* setTimeout: the retry timer fires once its delay has elapsed
RetrySpec == Init /\ [][NextRetry]_vars /\ WF_vars(TimerFire)

\* the answers to connect requests: accepted, or rejected with a message
HandshakeResponses ==
  \E s \in Sockets, id \in Ids, ok \in BOOLEAN :
    kind[id] = "connect" /\ Response(s, id, ok, IF ok THEN "P1" ELSE "string")

\* the handshake alone, with every nonce, token, clock value and key pair
NextAuth ==
  \/ Connect
  \/ \E s \in Sockets : SocketOpen(s)
  \/ \E s \in Sockets : SocketClose(s)
  \/ \E s \in Sockets : SocketFail(s)
  \/ \E s \in Sockets, nonce \in Nonces : Challenge(s, nonce)
  \/ \E id \in Ids, now \in Times, k \in Keys : ContinueConnectReq(id, now, k)

AuthSpec == InitAuth /\ [][NextAuth]_vars

\* buildDeviceAuthPayload as a function of its argument
NextPayload ==
  \/ BuildPayload
  \/ NextParams

PayloadSpec == InitPayload /\ [][NextPayload]_vars

\* the client with server events, without rpc() calls and retries
NextEvent ==
  \/ Connect
  \/ Disconnect
  \/ \E s \in Sockets : SocketOpen(s)
  \/ \E s \in Sockets : SocketClose(s)
  \/ \E s \in Sockets : SocketFail(s)
  \/ \E s \in Sockets : Challenge(s, Nonce0)
  \/ \E id \in Ids : ContinueConnectReq(id, Now0, Key0)
  \/ HandshakeResponses
  \/ \E s \in Sockets, name \in EventNames, payload \in EventPayloads :
       EventFrame(s, name, payload)
  \/ \E s \in Sockets, raw \in BadMessages : BadMessage(s, raw)

EventSpec == Init /\ [][NextEvent]_vars

\* the device identity alone: calls that may overlap, and restarts
NextIdentity ==
  \/ \E c \in Calls : IdentityCall(c)
  \/ \E c \in Calls : ImportDone(c)
  \/ \E c \in Calls : ImportFail(c)
  \/ \E c \in Calls, k \in Keys : GenerateDone(c, k)
  \/ \E c \in Calls : CacheGenerated(c)
  \/ Restart

IdentitySpec == InitIdentity /\ [][NextIdentity]_vars

\* a socket slot is always there for the socket the retry timer will open
SlotForRetry == reconnectTimer => Avail # {}

\* ---- steps the claims speak of ----
CloseEvent(s) == SocketClose(s) \/ SocketFail(s)
\* Ed25519 verification: sig is the signature of text under the private key
\* that belongs to the public key pub
Verifies(sig, pub, text) == sig.text = text /\ PublicOf(sig.key) = pub
LastIs(seq, x) == Len(seq) > 0 /\ seq[Len(seq)] = x

\* C1: when the close event of a socket is processed, every request in the
\* pending map is rejected with 'disconnected' exactly once, the map is empty
\* afterwards, and no promise of an rpc() call issued before it is left
\* unsettled.
C1_CloseRejectsAllPending ==
  [][\A s \in Sockets : CloseEvent(s) =>
       /\ pending' = {}
       /\ \A i \in pending :
            calls[i] = 0 /\ calls'[i] = 1 /\ outcome'[i] = "disconnected"
       /\ \A i \in Ids : kind[i] = "rpc" => outcome'[i] # "pending"]_vars

\* two rpc() calls were pending when the held socket closed, and both were
\* rejected with 'disconnected'
C1_Witness ==
  /\ ws # 0 /\ readyState[ws] = "CLOSED" /\ ~stopped
  /\ \A i \in Ids : kind[i] = "rpc" /\ outcome[i] = "disconnected" /\ calls[i] = 1

\* C2: a response id=X, ok=true, payload=P resolves exactly the call that was
\* issued with id X, with value P, and removes only that entry; every other
\* request keeps its state, whatever the order of the responses.
C2_ResponseResolvesItsCall ==
  [][\A s \in Sockets, i \in Ids, p \in Payloads :
       (i \in pending /\ Response(s, i, TRUE, p)) =>
         /\ outcome'[i] = "resolved" /\ value'[i] = p /\ calls'[i] = 1
         /\ pending' = pending \ {i}
         /\ \A j \in Ids \ {i} :
              /\ outcome'[j] = outcome[j]
              /\ value'[j] = value[j]
              /\ calls'[j] = calls[j]
              /\ (j \in timeouts') = (j \in timeouts)]_vars

\* the second of two concurrent rpc() calls was answered first
C2_Witness ==
  /\ kind[1] = "rpc" /\ kind[2] = "rpc"
  /\ outcome[2] = "resolved" /\ value[2] = "P2"
  /\ 1 \in pending /\ outcome[1] = "pending"

\* C3: whenever connect() opens a new socket (explicit call or retry timer),
\* the pending map holds no entry created before.
C3_NoPendingAcrossConnect ==
  [][(Connect \/ TimerFire) => pending = {}]_vars

C5_CloseFromConnectedNotifies ==
  [][\A s \in Sockets : (CloseEvent(s) /\ status = "connected") =>
       notifications' = Append(notifications, "D")]_vars

\* C6: onDisconnected is invoked only by a close event that finds the status
\* 'connected'; a close event that finds any other status does not invoke it.
C6_NotifyOnlyFromConnected ==
  [][/\ \A s \in Sockets : (CloseEvent(s) /\ status # "connected") =>
          notifications' = notifications
     /\ (notifications' # notifications /\ LastIs(notifications', "D")) =>
          (status = "connected" /\ \E s \in Sockets : SocketClose(s))]_vars

\* a close found the status 'connected' and notified, and a later close of
\* another attempt found 'connecting' and did not
C6_Witness ==
  /\ notifications = <<"C", "D">>
  /\ status = "error"
  /\ ws # 0 /\ readyState[ws] = "CLOSED"
  /\ backoffMs > BackoffFloor

\* C7: from disconnect() to the next connect() the status is 'disconnected'.
C7_DisconnectedWhileStopped ==
  stopped => status = "disconnected"

\* C8: from disconnect() to the next connect() call no socket is created and
\* no retry timer is armed (so none fires), whatever events arrive.
C8_NoRetryWhileStopped ==
  [][stopped' =>
       /\ ~reconnectTimer'
       /\ stopped =>
            /\ ~TimerFire
            /\ \A s \in Sockets :
                 readyState'[s] = "CONNECTING" => readyState[s] = "CONNECTING"]_vars

\* after disconnect() the close event of the dropped socket was processed
C8_Witness ==
  /\ stopped
  /\ status = "error" /\ connError = "closed"
  /\ \A s \in Sockets : readyState[s] = "NONE"

\* C9: the retry interval starts at 1000 ms, is multiplied by 1.5 by every
\* retry up to 30000 ms, stays within [1000, 30000], and the first retry timer
\* started after a handshake success waits 1000 ms.
C9_BackoffSchedule ==
  [][/\ backoffMs' >= BackoffFloor /\ backoffMs' =< BackoffCeiling
     /\ TimerFire => backoffMs' = Min((3 * backoffMs) \div 2, Ms(30000))
     /\ (reconnectTimer' /\ timerDelay' # timerDelay) => timerDelay' = backoffMs
     /\ (freshReset /\ ~freshReset') => timerDelay' = Ms(1000)]_vars

\* C10: every close of the held socket arms the retry timer, and an armed
\* retry timer leads to a new connect() unless disconnect() stops it, after
\* any number of failures.
C10_RetriesForever ==
  /\ [][\A s \in Sockets : (CloseEvent(s) /\ s = ws) => reconnectTimer']_vars
  /\ reconnectTimer ~>
       (stopped \/ (~reconnectTimer /\ ws # 0 /\ readyState[ws] = "CONNECTING"))

\* the retry timer is armed again after enough failures for the interval to
\* have reached its ceiling
C10_Witness ==
  /\ reconnectTimer /\ timerDelay = BackoffCeiling
  /\ ws # 0 /\ readyState[ws] = "CLOSED"

C15_OneConnectPerSocket ==
  \A s \in Sockets :
    Cardinality({i \in Ids : kind[i] = "connect" /\ sentOn[i] = s}) <= 1

\* C17: when the connect request is answered with ok=false, the status becomes
\* 'error', connection.error holds the message the server supplied, the
\* connect entry leaves the pending map, onConnected is not invoked and the
\* backoff interval is not reset.
C17_HandshakeRejected ==
  [][\A s \in Sockets, i \in Ids, f \in {"string", "object"} :
       (i \in pending /\ kind[i] = "connect" /\ Response(s, i, FALSE, f)) =>
         /\ status' = "error"
         /\ connError' = "server"
         /\ i \notin pending'
         /\ notifications' = notifications
         /\ backoffMs' = backoffMs]_vars

\* a handshake was rejected after a retry: the socket is still open, the
\* server's message is shown and the backoff interval is the grown one
C17_Witness ==
  /\ status = "error" /\ connError = "server"
  /\ ws # 0 /\ readyState[ws] = "OPEN"
  /\ backoffMs > BackoffFloor
  /\ notifications = <<>>
  /\ \E i \in Ids : kind[i] = "connect" /\ outcome[i] = "server" /\ sentOn[i] = ws

\* C18: after an ok=false response to connect a new connection attempt
\* follows without any caller action, also when the server leaves the socket
\* open: the rejection itself arms the retry timer or closes the socket (whose
\* close event then arms it).
C18_RejectionStartsRetry ==
  [][\A s \in Sockets, i \in Ids, f \in ErrForms :
       (i \in pending /\ kind[i] = "connect" /\ Response(s, i, FALSE, f)) =>
         reconnectTimer' \/ readyState'[s] # "OPEN"]_vars

\* C16: no req frame of a method other than connect is transmitted on a
\* socket unless that socket's connect request has been answered with
\* ok=true.
C16_NoRpcBeforeHandshake ==
  \A i \in Ids : (kind[i] = "rpc" /\ sentOn[i] # 0) => sentOn[i] \in handshook

\* C14: a connect request comes into being only in reaction to a received
\* connect.challenge, and the status leaves 'connecting' only when the connect
\* request sent on the held socket is answered, when the held socket closes,
\* or when the caller disconnects.
C14_ConnectingUntilAnswered ==
  [][/\ \A i \in Ids : (kind[i] # "connect" /\ kind'[i] = "connect") =>
                         \E s \in Sockets, nonce \in Nonces : Challenge(s, nonce)
     /\ (status = "connecting" /\ status' # "connecting") =>
          \/ Disconnect
          \/ \E s \in Sockets : s = ws /\ CloseEvent(s)
          \/ \E s \in Sockets, i \in Ids, ok \in BOOLEAN :
               \E body \in (IF ok THEN Payloads ELSE ErrForms) :
                 /\ s = ws /\ kind[i] = "connect" /\ i \in pending
                 /\ Response(s, i, ok, body)]_vars

\* C12: when sendConnectReq, started by a connect.challenge with nonce 'abc',
\* resumes while the client holds an open socket, it transmits exactly one
\* req frame with method 'connect', and the frame's device.signature is the
\* signature, under the key of device.publicKey, of
\* v2|<deviceId>|openclaw-control-ui|webchat|operator|operator.admin,
\* operator.approvals,operator.pairing|<signedAtMs>|<token>|abc.
C12_ChallengeAnswered ==
  [][\A id \in Ids, now \in Times, k \in Keys :
       (/\ id \in suspended /\ nonceOf[id] = <<"abc">> /\ sendRaw # 0
        /\ ContinueConnectReq(id, now, k)) =>
         LET f == connectReq'[id]
         IN /\ f # NoReq /\ f.type = "req" /\ f.method = "connect"
            /\ sentOn'[id] = sendRaw
            /\ \A j \in Ids \ {id} : connectReq'[j] = connectReq[j]
            /\ Verifies(f.device.signature, f.device.publicKey,
                        "v2|" \o f.device.id
                        \o "|openclaw-control-ui|webchat|operator|"
                        \o "operator.admin,operator.approvals,operator.pairing|"
                        \o ToString(now) \o "|" \o token \o "|abc")]_vars

\* a connect request answering a challenge with nonce 'abc' is out on the held
\* socket, signed at 2000 with the stored key pair k2
C12_Witness ==
  \E id \in Ids :
    /\ connectReq[id] # NoReq /\ sentOn[id] = ws
    /\ stored = StoredOf(generateDeviceIdentity("k2"))
    /\ connectReq[id].device.signature =
         [key |-> "k2",
          text |-> "v2|sha256-pub-k2|openclaw-control-ui|webchat|operator|operator.admin,operator.approvals,operator.pairing|2000|tok|abc"]

\* the fields every payload has after the version tag
PayloadFields(params) ==
  <<params.deviceId, params.clientId, params.clientMode, params.role,
    Join(params.scopes, ","), ToString(params.signedAtMs),
    IF params.token = <<>> THEN "" ELSE params.token[1]>>

C19_ForwardOnlyWhenConnected ==
  [][onEventLog' # onEventLog => status = "connected"]_vars

\* an event frame as the wire format has it: with an object as payload
WellFormed(msg) == msg.payload # <<>>

\* C20 as stated: the sequence of onEvent invocations equals, in order and
\* with the same event name and payload, the sequence of received well-formed
\* event frames whose name is not connect.challenge.
C20_ForwardsWellFormedOnly ==
  LET wf == SelectSeq(received, WellFormed)
  IN onEventLog = [n \in 1..Len(wf) |->
                     [event |-> wf[n].event, payload |-> [obj |-> wf[n].payload[1]]]]

\* C20 amended: the sequence of onEvent invocations equals, in order, the
\* sequence of all received event frames whose name is not connect.challenge,
\* each with its event name and with its payload, or with the whole frame in
\* place of the payload when the frame has none.
C20_ForwardsEveryEvent ==
  /\ onEventLog = [n \in 1..Len(received) |->
                     [event |-> received[n].event,
                      payload |-> IF WellFormed(received[n])
                                    THEN [obj |-> received[n].payload[1]]
                                    ELSE received[n]]]
  /\ \A n \in DOMAIN onEventLog : onEventLog[n].event # ChallengeName

\* after a handshake, an 'agent' frame without payload and then a 'chat' frame
\* with one were received and forwarded in that order
C20_Witness ==
  /\ \E i \in Ids : kind[i] = "connect" /\ outcome[i] = "resolved"
  /\ received = <<EventMsg("agent", <<>>), EventMsg("chat", <<"E1">>)>>
  /\ onEventLog = <<[event |-> "agent", payload |-> EventMsg("agent", <<>>)],
                    [event |-> "chat", payload |-> [obj |-> "E1"]]>>

\* C21: when the timeout timer of an rpc() call fires, the call rejects with
\* the timeout error and its entry leaves the pending map, while status,
\* error text and every other request stay as they are; a response that
\* arrives later with that id settles nothing and changes nothing.
C21_TimeoutIsLocal ==
  [][/\ \A i \in Ids : RpcTimeout(i) =>
          /\ outcome[i] = "pending" /\ outcome'[i] = "timeout" /\ calls'[i] = 1
          /\ i \notin pending'
          /\ status' = status /\ connError' = connError
          /\ \A j \in Ids \ {i} :
               /\ (j \in pending') = (j \in pending)
               /\ (j \in timeouts') = (j \in timeouts)
               /\ outcome'[j] = outcome[j] /\ calls'[j] = calls[j]
     /\ \A s \in Sockets, i \in Ids, ok \in BOOLEAN :
          \A body \in (IF ok THEN Payloads ELSE ErrForms) :
            (outcome[i] = "timeout" /\ Response(s, i, ok, body)) =>
              UNCHANGED <<status, connError, pending, outcome, value, calls,
                          timeouts, backoffMs, notifications>>]_vars

\* an rpc() call sent on the held socket has timed out while another request
\* is pending; the socket is still open, so the late response can arrive
C21_Witness ==
  /\ kind[1] = "rpc" /\ outcome[1] = "timeout" /\ calls[1] = 1
  /\ ws # 0 /\ readyState[ws] = "OPEN" /\ sentOn[1] = ws
  /\ 2 \in pending

\* C22: every pending request, the handshake's connect request included, is
\* destroyed by a timeout at the latest: every entry of the pending map has a
\* timeout timer armed for it.
C22_EveryPendingTimesOut ==
  \A i \in pending : i \in timeouts

\* C23: a response frame whose id is not in the pending map is ignored: the
\* pending map, the status, the backoff interval and the retry timer are
\* unchanged, and no callback runs and no promise is settled.
C23_UnknownResponseIgnored ==
  [][\A s \in Sockets, i \in Ids \cup {UnknownId}, ok \in BOOLEAN :
       \A body \in (IF ok THEN Payloads ELSE ErrForms) :
         (i \notin pending /\ Response(s, i, ok, body)) =>
           UNCHANGED <<pending, status, connError, backoffMs, reconnectTimer,
                       timerDelay, outcome, value, calls, timeouts,
                       notifications, onEventLog, handshook>>]_vars

\* request 1 was answered on the held socket, which is still open and can
\* deliver a duplicate of the answer, while request 2 is pending
C23_Witness ==
  /\ outcome[1] = "resolved" /\ 1 \notin pending
  /\ ws # 0 /\ Receiving(ws) /\ sentOn[1] = ws
  /\ 2 \in pending /\ outcome[2] = "pending"

\* C24 as stated: a response with ok=false rejects the matching call with the
\* server-supplied error.message when the error field is an object, and with
\* a generic message when the error field is a plain string.
C24_StringErrorIsGeneric ==
  [][\A s \in Sockets, i \in Ids, f \in {"string", "object"} :
       (i \in pending /\ Response(s, i, FALSE, f)) =>
         outcome'[i] = IF f = "object" THEN "server" ELSE "RPC error"]_vars

\* C24 amended: a response with ok=false rejects the matching call, once, with
\* the server-supplied text: error.message when the error field is an object
\* that has one, the string itself when the error field is a plain string;
\* the generic message is used only when the error has no message.
C24_ErrorCarriesServerText ==
  [][\A s \in Sockets, i \in Ids, f \in ErrForms :
       (i \in pending /\ Response(s, i, FALSE, f)) =>
         /\ outcome'[i] = IF f \in {"string", "object"} THEN "server" ELSE "RPC error"
         /\ calls'[i] = calls[i] + 1
         /\ i \notin pending' /\ i \notin timeouts']_vars

\* an rpc() call was rejected with the server's text and another one with the
\* generic message
C24_Witness ==
  /\ kind[1] = "rpc" /\ outcome[1] = "server" /\ calls[1] = 1
  /\ kind[2] = "rpc" /\ outcome[2] = "RPC error" /\ calls[2] = 1

\* the client holds no socket or one that is not open
NotOpen == ~(ws # 0 /\ readyState[ws] = "OPEN")

\* C25 as stated: while the socket is not open, chatAbort transmits nothing
\* and changes no state at all.
C25_AbortChangesNothing ==
  [][(NotOpen /\ ChatAbort) => UNCHANGED vars]_vars

\* C25 amended: while the socket is not open no operation transmits a frame,
\* and chatAbort changes nothing but the request counter, whose next id it
\* uses up: no pending entry, no status change, no timer.
C25_SendWhileClosedIsNoOp ==
  [][/\ NotOpen => \A i \in Ids : sentOn'[i] \in {sentOn[i], 0}
     /\ (NotOpen /\ ChatAbort) =>
          /\ reqCounter' = reqCounter + 1
          /\ UNCHANGED <<status, connError, sockVars, pending, suspended,
                         outcome, value, calls, timeouts, sentOn, retryVars,
                         notifications, connectReq, onEventLog>>]_vars

\* chatAbort was called on a client that has never connected
C25_Witness ==
  /\ status = "disconnected" /\ ws = 0 /\ ~stopped
  /\ kind[1] = "abort" /\ sentOn[1] = 0 /\ reqCounter = 1

\* C26: an inbound message that is not valid JSON, or is JSON without a type
\* or with an unknown one, is dropped: status, pending map, backoff interval
\* and retry timer are unchanged, no callback is invoked, no promise is
\* settled and no frame is sent.
C26_BadMessageDropped ==
  [][\A s \in Sockets, raw \in BadMessages :
       BadMessage(s, raw) =>
         UNCHANGED <<status, connError, sockVars, pending, suspended, outcome,
                     value, calls, timeouts, sentOn, reqCounter, connectReq,
                     backoffMs, reconnectTimer, timerDelay, notifications,
                     onEventLog>>]_vars

\* a message was dropped on a connected client that has events forwarded
C26_Witness ==
  /\ dropped = 1 /\ status = "connected"
  /\ Len(onEventLog) = 1 /\ Len(received) = 1

\* C27: any two calls of getOrCreateDeviceIdentity() of one process that have
\* returned, overlapping or not, returned the same deviceId and public key
C27_OneIdentityPerProcess ==
  \A c \in Calls, d \in Calls :
    (callPhase[c] = "done" /\ callPhase[d] = "done")
      => /\ callResult[c].deviceId = callResult[d].deviceId
         /\ callResult[c].publicKey = callResult[d].publicKey

\* C28: once a call of an earlier process has returned an identity that was
\* generated and stored, no call of the restarted process generates a key
\* pair, and each one that has returned gave the same deviceId and public key
C28_SameIdentityAfterRestart ==
  (restarts > 0 /\ earlier # {})
    => \A c \in Calls :
         /\ callPhase[c] \notin {"generating", "generated"}
         /\ callPhase[c] = "done"
              => \A x \in earlier : /\ callResult[c].deviceId = x.deviceId
                                    /\ callResult[c].publicKey = x.publicKey

\* C29: an id is issued only while no pending map of the process (this
\* client's, a second instance's) and no handshake under way holds it, whoever
\* issues it (rpc, chatAbort, the handshake, the other instance); and no id is
\* pending in two maps at once
C29_IssuedIdNotPending ==
  [][/\ \A i \in Ids :
          kind'[i] # kind[i]
            => (i \notin pending /\ i \notin otherPending /\ i \notin suspended)
     /\ pending' \cap otherPending' = {}]_vars

\* an id was issued for the handshake while a request of the other instance
\* was pending, and both are pending now
C29_Witness ==
  /\ 1 \in otherPending
  /\ 2 \in pending
  /\ kind[2] = "connect"

\* C30: processing a close event of the current socket leaves the status
\* 'disconnected' if it was 'connected' just before and 'error' otherwise
\* (an error event before the close makes it 'error')
C30_StatusAfterClose ==
  [][\A s \in Sockets :
       /\ (s = ws /\ SocketClose(s))
            => status' = IF status = "connected" THEN "disconnected" ELSE "error"
       /\ (s = ws /\ SocketFail(s)) => status' = "error"]_vars

\* neither connect() nor disconnect() has been called on the client yet
Fresh == ~shouldReconnect /\ ~stopped
\* no socket object exists
NoSocket == ws = 0 /\ \A s \in Sockets : readyState[s] = "NONE"

\* C31: until connect() or disconnect() is first called the status is
\* 'disconnected', no socket exists, no retry timer is armed and no request was
\* transmitted; as long as no socket exists only connect() creates one, arms
\* nothing and transmits nothing; connect(), called by the application or by
\* the retry timer, sets the status to 'connecting' and clears the error text
C31_StartsIdle ==
  /\ [](Fresh => /\ status = "disconnected"
                 /\ connError = "none"
                 /\ NoSocket
                 /\ ~reconnectTimer
                 /\ \A i \in Ids : sentOn[i] = 0)
  /\ [][(NoSocket /\ ~Connect)
          => (NoSocket' /\ ~reconnectTimer' /\ sentOn' = sentOn)]_vars
  /\ [][(Connect \/ TimerFire)
          => (status' = "connecting" /\ connError' = "none" /\ ws' # 0)]_vars

\* rpc() was called before connect(): its request is pending, nothing was sent
C31_Witness ==
  /\ Fresh
  /\ 1 \in pending
  /\ sentOn[1] = 0

\* C32: disconnect() rejects every pending request and empties the pending
\* map, and while the client stays disconnected (no connect() since) the map
\* stays empty in every step that is not a call of rpc()
C32_DisconnectAbortsAll ==
  [][/\ Disconnect => /\ pending' = {}
                      /\ \A i \in pending : outcome'[i] = "disconnected"
     /\ (stopped /\ stopped' /\ pending = {} /\ ~Rpc) => pending' = {}]_vars

\* the call has read a stored record that does not decode or does not import
FoundCorrupt(c) == callData[c] # NoRecord /\ ~Imports(callData[c])

\* C33: when a call that found a corrupt record returns, the record it returns
\* an identity for is a newly generated key pair, the corrupt record is gone
\* and the stored record carries the deviceId and public key it returns
C33_CorruptRecordReplaced ==
  [][\A c \in Calls :
       (FoundCorrupt(c) /\ callPhase[c] # "done" /\ callPhase'[c] = "done")
         => /\ callResult'[c].privateKey \in generatedKeys'
            /\ stored' # callData[c]
            /\ stored'.deviceId = callResult'[c].deviceId
            /\ stored'.publicKey = callResult'[c].publicKey]_vars

\* C34: every identity a call has returned has the deviceId that is the hash
\* of its public key, and its public key is the one of its private key
C34_IdentityConsistent ==
  \A c \in Calls :
    callPhase[c] = "done"
      => /\ callResult[c].deviceId = DeviceIdOf(callResult[c].publicKey)
         /\ callResult[c].publicKey = PublicOf(callResult[c].privateKey)

\* the string a verifier rebuilds from the fields of a connect request: tag
\* 'v2' and the nonce as last field exactly when device.nonce is present
SignedTextOf(f) ==
  LET fields == <<f.device.id, f.client.id, f.client.mode, f.role,
                  Join(f.scopes, ","), ToString(f.device.signedAt), f.auth.token>>
  IN Join(IF f.device.nonce # <<>> THEN <<"v2">> \o fields \o f.device.nonce
                                   ELSE <<"v1">> \o fields, "|")

\* C35: the string signed for a connect request is the one its fields give:
\* device.id, device.signedAt and auth.token are the deviceId, signedAtMs and
\* token fields, and device.nonce is present exactly when the tag is 'v2' and
\* is then the last field
C35_RequestMatchesSignedPayload ==
  \A id \in Ids :
    connectReq[id] # NoReq
      => connectReq[id].device.signature.text = SignedTextOf(connectReq[id])

\* C36: an open socket whose handshake has succeeded stops being open only
\* through disconnect(), an explicit connect(), a close by the server or a
\* transport failure, never through the retry timer
C36_TimerSparesLiveSocket ==
  [][\A s \in Sockets :
       (s \in handshook /\ readyState[s] = "OPEN" /\ readyState'[s] # "OPEN")
         => (Disconnect \/ Connect \/ SocketClose(s) \/ SocketFail(s))]_vars

\* connect() has replaced socket s by the socket held now
Superseded(s) == ws # 0 /\ s # ws /\ readyState[s] # "NONE"

\* C37: a close, error or res message event of a superseded socket leaves the
\* status, the notifications and the retry timer as they are and rejects no
\* request that was sent on the current socket
C37_SupersededSocketIsInert ==
  [][\A s \in Sockets :
       (/\ Superseded(s)
        /\ \/ SocketClose(s)
           \/ SocketFail(s)
           \/ \E id \in Ids \cup {UnknownId}, ok \in BOOLEAN :
                \E body \in (IF ok THEN Payloads ELSE ErrForms) :
                  Response(s, id, ok, body))
         => /\ status' = status
            /\ notifications' = notifications
            /\ reconnectTimer' = reconnectTimer
            /\ \A i \in pending : sentOn[i] = ws => i \in pending']_vars

\* C38: when sendConnectReq resumes after the socket that delivered its
\* challenge has closed or has been replaced, it transmits nothing and adds
\* no pending entry
C38_HandshakeBoundToSocket ==
  [][\A id \in Ids :
       (/\ id \in suspended
        /\ challengedOn[id] # ws
        /\ ContinueConnectReq(id, Now0, Key0))
         => (sentOn'[id] = 0 /\ id \notin pending')]_vars

\* C39: the notifications are onConnected, onDisconnected, onConnected, ...
\* in turn, starting with onConnected
C39_NotificationsAlternate ==
  \A n \in DOMAIN notifications :
    notifications[n] = IF n % 2 = 1 THEN "C" ELSE "D"

\* C40: the armed timeout timers are exactly the pending entries made by
\* rpc(), and no promise of an rpc() call has been settled more than once
C40_TimersArePendingRpcs ==
  /\ timeouts = {i \in pending : kind[i] = "rpc"}
  /\ \A i \in Ids : kind[i] = "rpc" => calls[i] =< 1

\* one rpc() call was rejected by a flush and its timer is gone, a later one
\* is pending with its timer armed
C40_Witness ==
  /\ kind[1] = "rpc" /\ outcome[1] = "disconnected" /\ calls[1] = 1
  /\ 1 \notin timeouts
  /\ kind[2] = "rpc" /\ 2 \in pending /\ 2 \in timeouts

====
